---- MODULE Spec2Model ----
(***************************************************************************)
(* Credential store of configured_mail_sender (MailSender.__init__,        *)
(* MailSender._read_creds_file and MailSender._update_creds) run by        *)
(* several handles against one credentials file, its ".temp" sibling and   *)
(* its ".lock" sibling, and the factory mail_sender(), which resolves a     *)
(* sender address to an implementation class, constructs it and opens it.  *)
(*                                                                         *)
(* A mapping (python dict) is a function whose DOMAIN is the set of keys   *)
(* present.  The file system is a table of paths onto inodes, so that      *)
(* os.replace moves an inode and an open descriptor keeps its inode.       *)
(***************************************************************************)
EXTENDS Integers, Sequences, FiniteSets, TLC

\* ---- bounds -------------------------------------------------------------
NumHandles == 2
MaxOps == 5

\* ---- universe -----------------------------------------------------------
Handles == 1..NumHandles
NoHandle == 0

\* sender addresses, in the order yaml.safe_dump sorts the keys
SenderOrder == <<"amy@x.org", "bob@x.org">>
Senders == {SenderOrder[i] : i \in DOMAIN SenderOrder}
NoSender == "?"

Fields == {"user", "password"}
Values == {"v"}
Records == UNION {[F -> Values] : F \in SUBSET Fields}
EmptyRec == <<>>
Mappings == UNION {[S -> Records] : S \in SUBSET Senders}
EmptyMap == <<>>

\* ---- file contents and the yaml conversions -----------------------------
Doc(body) == [kind |-> "doc", body |-> body]
ZeroBytes == [kind |-> "empty", body |-> <<>>]
NonMapping == [kind |-> "nonmap", body |-> <<>>]
Garbage == [kind |-> "garbage", body |-> <<>>]

\* yaml.safe_dump(current_creds): one entry per key, keys sorted
Dump(m) ==
    LET keys == SelectSeq(SenderOrder, LAMBDA s : s \in DOMAIN m)
    IN  Doc([i \in 1..Len(keys) |-> <<keys[i], m[keys[i]]>>])

\* the mapping a block of entries denotes (a repeated key: the last wins)
BodyMap(body) ==
    [s \in {body[i][1] : i \in DOMAIN body} |->
        LET last == CHOOSE i \in DOMAIN body :
                       /\ body[i][1] = s
                       /\ \A j \in DOMAIN body : body[j][1] = s => j <= i
        IN  body[last][2]]

\* yaml.load raises yaml.YAMLError on an unparsable document
LoadRaises(c) == c.kind = "garbage"

\* what yaml.load returns: a dict, None (empty document) or another object
Load(c) ==
    CASE c.kind = "doc"    -> [kind |-> "map", map |-> BodyMap(c.body)]
      [] c.kind = "empty"  -> [kind |-> "None", map |-> EmptyMap]
      [] OTHER             -> [kind |-> "other", map |-> EmptyMap]

MapResult(m) == [kind |-> "map", map |-> m]
NoResult == [kind |-> "None", map |-> EmptyMap]

\* what a write that stores only part of the document can leave behind
Partial(c) ==
    {ZeroBytes, Garbage, NonMapping}
      \cup {Doc(SubSeq(c.body, 1, k)) : k \in 1..(Len(c.body) - 1)}

\* ---- paths and inodes ---------------------------------------------------
Paths == {"creds", "temp"}
Inodes == 1..(NumHandles + 2)
NoInode == 0

\* ---- mail_sender(): its inputs ------------------------------------------
\* the sender argument: None or a str
NoneSender == "None"
Addresses ==
    {NoneSender, "", "amy", "@", "amy@", "amy@x.org", "bob@x.org", "amy@y.org",
     "amy@b@x.org"}

\* values of the "protocol" key of a domain's settings
Protocols ==
    {"smtp", "nope", "plugin:Sender", "plugin:Other", "plugin:Missing",
     "nomodule:Sender", ":Sender"}

\* a str as the pieces between its separators, the separators kept
Text(str) ==
    CASE str = ""                -> <<>>
      [] str = "@"               -> <<"@">>
      [] str = "amy@"            -> <<"amy", "@">>
      [] str = "amy@x.org"       -> <<"amy", "@", "x.org">>
      [] str = "bob@x.org"       -> <<"bob", "@", "x.org">>
      [] str = "amy@y.org"       -> <<"amy", "@", "y.org">>
      [] str = "amy@b@x.org"     -> <<"amy", "@", "b", "@", "x.org">>
      [] str = "plugin:Sender"   -> <<"plugin", ":", "Sender">>
      [] str = "plugin:Other"    -> <<"plugin", ":", "Other">>
      [] str = "plugin:Missing"  -> <<"plugin", ":", "Missing">>
      [] str = "nomodule:Sender" -> <<"nomodule", ":", "Sender">>
      [] str = ":Sender"         -> <<":", "Sender">>
      [] OTHER                   -> <<str>>

\* the str a separator-free run of pieces spells
Spelled(t) == IF t = <<>> THEN "" ELSE t[1]

\* sep in str
Contains(t, sep) == \E i \in DOMAIN t : t[i] = sep

\* str.split(sep, maxsplit): at most maxsplit cuts, from the left
RECURSIVE split(_, _, _)
split(t, sep, maxsplit) ==
    IF maxsplit = 0 \/ ~Contains(t, sep)
    THEN <<t>>
    ELSE LET i == CHOOSE k \in DOMAIN t :
                     t[k] = sep /\ \A j \in 1..(k - 1) : t[j] # sep
         IN  <<SubSeq(t, 1, i - 1)>> \o split(SubSeq(t, i + 1, Len(t)), sep, maxsplit - 1)

\* the settings of one domain: a dict with or without "protocol"
SpecKeys == {"protocol", "server"}
DomainSpecs ==
    UNION {{[k \in K |-> IF k = "protocol" THEN p ELSE "smtp.x.org"] : p \in Protocols}
              : K \in SUBSET SpecKeys}
EmptySpec == <<>>

\* domains_conf as load_config returns it
ConfDomains == {"x.org"}
DomainTables == UNION {[D -> DomainSpecs] : D \in SUBSET ConfDomains}

\* what importlib can import, and the attributes of each module
Importable == {"plugin"}
Attributes == {"Sender", "Other"}

\* the classes mail_sender can end up instantiating
SMTPSender == "SMTPSender"
NoClass == "none"

\* one run of mail_sender
NoCall ==
    [pc |-> "idle", sender |-> "", conf |-> <<>>, loaded |-> FALSE,
     domain |-> "", spec |-> EmptySpec, protocol |-> "", module_ |-> "",
     class_ |-> "", cls |-> NoClass, inst |-> NoHandle, built |-> 0,
     checked |-> FALSE, opens |-> 0, result |-> NoHandle, err |-> "none"]

VARIABLES
    paths,          \* path -> inode, NoInode when the path does not exist
    inodes,         \* inode -> content
    lockHolder,     \* handle whose FileLock holds <creds>.lock
    lockCount,      \* handle -> FileLock's re-entrancy counter
    pc,             \* handle -> position in its code
    op,             \* handle -> operation in progress or last run
    sender,         \* handle -> self.sender
    creds,          \* handle -> self.user_credentials
    result,         \* handle -> value of creds / current_creds
    fd,             \* handle -> inode of the descriptor opened on the temp file
    err,            \* handle -> exception the operation raised
    ops,            \* operations started and faults injected so far
    snap,           \* history: target content when the update took the lock
    fault,          \* history: I/O fault injected into the running operation
    stale,          \* history: temp file content when the update took the lock
    lin,            \* history: updates applied in lock-acquisition order
    lastCommitted,  \* history: document of the last completed os.replace
    lastWrite,      \* history: sender -> who replaced its record, and with what
    call            \* the run of mail_sender in progress or last made

vars == <<paths, inodes, lockHolder, lockCount, pc, op, sender, creds, result,
          fd, err, ops, snap, fault, stale, lin, lastCommitted, lastWrite, call>>

fsVars == <<paths, inodes>>
lockVars == <<lockHolder, lockCount>>
histVars == <<snap, fault, stale, lin, lastCommitted, lastWrite>>
factoryVars == <<call>>

Absent == [kind |-> "absent", body |-> <<>>]

\* content found at a path
FileAt(p) == IF paths[p] = NoInode THEN Absent ELSE inodes[paths[p]]

\* an inode no path and no descriptor refers to is gone
Collect(ino, pa, f) ==
    [i \in Inodes |->
        IF (\E p \in Paths : pa[p] = i) \/ (\E h \in Handles : f[h] = i)
        THEN ino[i] ELSE ZeroBytes]

FreeInode ==
    CHOOSE i \in Inodes :
        /\ \A p \in Paths : paths[p] # i
        /\ \A h \in Handles : fd[h] # i
        /\ \A j \in Inodes :
              ((\A p \in Paths : paths[p] # j) /\ (\A h \in Handles : fd[h] # j))
                 => i <= j

\* ---- initial state ------------------------------------------------------
InitMappings ==
    {EmptyMap,
     [s \in {SenderOrder[1]} |-> [f \in {"user"} |-> "v"]]}

InitContents ==
    {Absent, ZeroBytes, NonMapping, Garbage} \cup {Dump(m) : m \in InitMappings}

NoWrite == [by |-> NoHandle, rec |-> EmptyRec]

Init ==
    \E c \in InitContents :
        /\ paths = [p \in Paths |-> IF p = "creds" /\ c # Absent THEN 1 ELSE NoInode]
        /\ inodes = [i \in Inodes |-> IF i = 1 /\ c # Absent THEN c ELSE ZeroBytes]
        /\ lockHolder = NoHandle
        /\ lockCount = [h \in Handles |-> 0]
        /\ pc = [h \in Handles |-> "unborn"]
        /\ op = [h \in Handles |-> "none"]
        /\ sender = [h \in Handles |-> NoSender]
        /\ creds = [h \in Handles |-> EmptyRec]
        /\ result = [h \in Handles |-> NoResult]
        /\ fd = [h \in Handles |-> NoInode]
        /\ err = [h \in Handles |-> "none"]
        /\ ops = 0
        /\ snap = [h \in Handles |-> Absent]
        /\ fault = [h \in Handles |-> "none"]
        /\ stale = [h \in Handles |-> Absent]
        /\ lin = c
        /\ lastCommitted = c
        /\ lastWrite = [s \in Senders |-> NoWrite]
        /\ call = NoCall


\* ---- the interprocess lock (FileLock on <creds>.lock) -------------------
\* variant: the lock excludes nobody
CanLock_NoExclusion(h) == TRUE

\* the lock file is free for this handle's FileLock to take
CanLock(h) == lockHolder = NoHandle

\* variant: a lock that is not re-entrant, released by the inner __exit__
Remaining_NotReentrant(n) == 0

\* variant: an __exit__ that leaves the counter as it is
Remaining_Leak(n) == n

\* FileLock's counter after one __exit__
Remaining(n) == n - 1

\* variant: the handle's own FileLock waits for itself
Reentrant_Never(h) == FALSE

\* the handle's FileLock already holds the lock file
Reentrant(h) == lockCount[h] > 0

\* `with self.cred_locker:` entered; re-entrant for the handle's own FileLock
Acquire(h) ==
    /\ Reentrant(h) \/ CanLock(h)
    /\ lockCount' = [lockCount EXCEPT ![h] = @ + 1]
    /\ lockHolder' = h

\* `with self.cred_locker:` left, normally or by an exception
Release(h) ==
    /\ lockCount' = [lockCount EXCEPT ![h] = Remaining(@)]
    /\ lockHolder' = IF Remaining(lockCount[h]) = 0 /\ lockHolder = h
                     THEN NoHandle ELSE lockHolder

\* ---- python helpers -----------------------------------------------------
\* dict.get(key): None for a missing key
HasKey(m, s) == s \in DOMAIN m

\* lines 89-91: self._read_creds_file().get(sender), {} when that is falsy
user_credentials(m, s) ==
    IF HasKey(m, s) /\ m[s] # EmptyRec THEN m[s] ELSE EmptyRec

\* variant: a new mapping is built that holds this sender's record only
Overlay_DropOthers(m, s, rec) == [x \in {s} |-> rec]

\* variant: the record is merged field by field over the stored record
Overlay_Merge(m, s, rec) ==
    [x \in (DOMAIN m) \cup {s} |->
        IF x # s THEN m[x]
        ELSE IF s \in DOMAIN m
             THEN [f \in (DOMAIN rec) \cup (DOMAIN m[s]) |->
                     IF f \in DOMAIN rec THEN rec[f] ELSE m[s][f]]
             ELSE rec]

\* line 127: current_creds[self.sender] = self.user_credentials
Overlay(m, s, rec) ==
    [x \in (DOMAIN m) \cup {s} |-> IF x = s THEN rec ELSE m[x]]

\* variant: the new document is written in place
temp_file_InPlace == "creds"

\* line 129: temp_file = f'{self.user_cred_file}.temp'
temp_file == "temp"

\* variant: the temporary file is opened without O_TRUNC
Truncated_Keep(c) == c

\* line 133: O_TRUNC, what the file holds once it is opened
Truncated(c) == ZeroBytes

\* line 135: what a file holds after os.write of doc at its start
Written(old, doc) ==
    IF old.kind = "doc" /\ Len(old.body) > Len(doc.body)
    THEN Doc(doc.body \o SubSeq(old.body, Len(doc.body) + 1, Len(old.body)))
    ELSE doc

\* the mapping a target content stands for when an update reads it
Parsable(c) == c.kind \in {"absent", "doc"}
MapOf(c) == IF c.kind = "doc" THEN BodyMap(c.body) ELSE EmptyMap

\* the sequential effect of one update on the target content
Applied(c, s, rec) == IF Parsable(c) THEN Dump(Overlay(MapOf(c), s, rec)) ELSE c

\* variant: nothing is returned for a missing file
MissingFile_None == NoResult

\* lines 116-117: else: return {}
MissingFile == MapResult(EmptyMap)

\* ---- operations a caller starts -----------------------------------------
\* MailSender.__init__(sender, ...) up to the call of _read_creds_file;
\* handles are numbered in the order they are constructed
Born(h, s) ==
    /\ pc[h] = "unborn"
    /\ \A g \in Handles : g < h => pc[g] # "unborn"
    /\ ops < MaxOps
    /\ ops' = ops + 1
    /\ sender' = [sender EXCEPT ![h] = s]
    /\ op' = [op EXCEPT ![h] = "init"]
    /\ pc' = [pc EXCEPT ![h] = "r_lock"]
    /\ UNCHANGED <<fsVars, lockVars, creds, result, fd, err, histVars>>

\* a caller constructs a MailSender (a subclass of it) directly
Construct(h, s) == Born(h, s) /\ UNCHANGED call

\* a caller (a subclass) calls _read_creds_file on a constructed handle
StartRead(h) ==
    /\ pc[h] = "idle"
    /\ ops < MaxOps
    /\ ops' = ops + 1
    /\ op' = [op EXCEPT ![h] = "read"]
    /\ pc' = [pc EXCEPT ![h] = "r_lock"]
    /\ err' = [err EXCEPT ![h] = "none"]
    /\ UNCHANGED <<call, fsVars, lockVars, sender, creds, result, fd, histVars>>

\* the owner of the handle leaves rec in self.user_credentials and calls
\* _update_creds
StartUpdate(h, rec) ==
    /\ pc[h] = "idle"
    /\ ops < MaxOps
    /\ ops' = ops + 1
    /\ creds' = [creds EXCEPT ![h] = rec]
    /\ op' = [op EXCEPT ![h] = "update"]
    /\ pc' = [pc EXCEPT ![h] = "u_lock"]
    /\ err' = [err EXCEPT ![h] = "none"]
    /\ UNCHANGED <<call, fsVars, lockVars, sender, result, fd, histVars>>

\* ---- _read_creds_file ---------------------------------------------------
\* line 107: with self.cred_locker
RLock(h) ==
    /\ pc[h] = "r_lock"
    /\ Acquire(h)
    /\ pc' = [pc EXCEPT ![h] = "r_read"]
    /\ UNCHANGED <<call, fsVars, op, sender, creds, result, fd, err, ops, histVars>>

\* lines 108-117: path.exists, open, yaml.load; {} when there is no file
RRead(h) ==
    /\ pc[h] = "r_read"
    /\ pc' = [pc EXCEPT ![h] = "r_unlock"]
    /\ LET c == FileAt("creds") IN
         CASE c.kind = "absent" ->
                /\ result' = [result EXCEPT ![h] = MissingFile]
                /\ UNCHANGED err
           [] LoadRaises(c) ->
                \* not an IOError: leaves _read_creds_file as it is
                /\ err' = [err EXCEPT ![h] = "YAMLError"]
                /\ UNCHANGED result
           [] OTHER ->
                /\ result' = [result EXCEPT ![h] = Load(c)]
                /\ UNCHANGED err
    /\ UNCHANGED <<call, fsVars, lockVars, op, sender, creds, fd, ops, histVars>>

\* the with block of _read_creds_file is left and the caller gets the mapping
\* or the exception
RReturn(h) ==
    /\ pc[h] = "r_unlock"
    /\ op[h] = "read"
    /\ Release(h)
    /\ pc' = [pc EXCEPT ![h] = "idle"]
    /\ result' = [result EXCEPT ![h] = NoResult]
    /\ fault' = [fault EXCEPT ![h] = "none"]
    /\ UNCHANGED <<call, fsVars, op, sender, creds, fd, err, ops,
                   snap, stale, lin, lastCommitted, lastWrite>>

\* ---- MailSender.__init__, lines 89-92 -----------------------------------
\* _read_creds_file returns into __init__: .get(sender), {} when falsy
IGet(h) ==
    /\ pc[h] = "r_unlock"
    /\ op[h] = "init"
    /\ Release(h)
    /\ IF err[h] # "none"
       THEN /\ pc' = [pc EXCEPT ![h] = "failed"]
            /\ UNCHANGED <<creds, err>>
       ELSE IF result[h].kind = "map"
       THEN /\ creds' = [creds EXCEPT ![h] = user_credentials(result[h].map, sender[h])]
            /\ pc' = [pc EXCEPT ![h] = "idle"]
            /\ UNCHANGED err
       ELSE \* None.get / list.get / str.get
            /\ err' = [err EXCEPT ![h] = "AttributeError"]
            /\ pc' = [pc EXCEPT ![h] = "failed"]
            /\ UNCHANGED creds
    /\ result' = [result EXCEPT ![h] = NoResult]
    /\ fault' = [fault EXCEPT ![h] = "none"]
    /\ UNCHANGED <<call, fsVars, op, sender, fd, ops,
                   snap, stale, lin, lastCommitted, lastWrite>>

\* ---- _update_creds ------------------------------------------------------
\* line 124: with self.cred_locker
ULock(h) ==
    /\ pc[h] = "u_lock"
    /\ Acquire(h)
    /\ pc' = [pc EXCEPT ![h] = "r_lock"]
    /\ snap' = [snap EXCEPT ![h] = FileAt("creds")]
    /\ stale' = [stale EXCEPT ![h] = FileAt(temp_file)]
    /\ lin' = Applied(lin, sender[h], creds[h])
    /\ UNCHANGED <<call, fsVars, op, sender, creds, result, fd, err, ops,
                   fault, lastCommitted, lastWrite>>

\* lines 126-127: _read_creds_file returns into _update_creds;
\* current_creds[self.sender] = self.user_credentials
UOverlay(h) ==
    /\ pc[h] = "r_unlock"
    /\ op[h] = "update"
    /\ Release(h)
    /\ IF err[h] # "none"
       THEN /\ pc' = [pc EXCEPT ![h] = "u_unlock"]
            /\ UNCHANGED <<result, err>>
       ELSE IF result[h].kind = "map"
       THEN /\ result' = [result EXCEPT ![h] =
                            MapResult(Overlay(result[h].map, sender[h], creds[h]))]
            /\ pc' = [pc EXCEPT ![h] = "u_open"]
            /\ UNCHANGED err
       ELSE \* None / list / str does not support item assignment
            /\ err' = [err EXCEPT ![h] = "TypeError"]
            /\ pc' = [pc EXCEPT ![h] = "u_unlock"]
            /\ UNCHANGED result
    /\ UNCHANGED <<call, fsVars, op, sender, creds, fd, ops, histVars>>

\* line 133: os.open(temp_file, O_CREAT | O_TRUNC | O_WRONLY, 0o600)
UOpen(h) ==
    /\ pc[h] = "u_open"
    /\ LET ino == IF paths[temp_file] # NoInode THEN paths[temp_file] ELSE FreeInode
       IN  /\ paths' = [paths EXCEPT ![temp_file] = ino]
           /\ inodes' = [inodes EXCEPT ![ino] = Truncated(inodes[ino])]
           /\ fd' = [fd EXCEPT ![h] = ino]
    /\ pc' = [pc EXCEPT ![h] = "u_write"]
    /\ UNCHANGED <<call, lockVars, op, sender, creds, result, err, ops, histVars>>

\* lines 135, 140-141: os.write(fd, bytes(yaml.safe_dump(current_creds),
\* 'utf-8')), then os.close(fd)
UWrite(h) ==
    /\ pc[h] = "u_write"
    /\ fd' = [fd EXCEPT ![h] = NoInode]
    /\ inodes' = Collect([inodes EXCEPT ![fd[h]] =
                             Written(@, Dump(result[h].map))], paths, fd')
    /\ pc' = [pc EXCEPT ![h] = "u_replace"]
    /\ UNCHANGED <<call, paths, lockVars, op, sender, creds, result, err, ops, histVars>>

\* line 142: os.replace(temp_file, self.user_cred_file)
UReplace(h) ==
    /\ pc[h] = "u_replace"
    /\ pc' = [pc EXCEPT ![h] = "u_unlock"]
    /\ IF paths[temp_file] = NoInode
       THEN \* FileNotFoundError, caught at line 143
            /\ err' = [err EXCEPT ![h] = "MailSenderException"]
            /\ UNCHANGED <<fsVars, lastCommitted, lastWrite>>
       ELSE /\ paths' = [p \in Paths |->
                           IF p = "creds" THEN paths[temp_file]
                           ELSE IF p = temp_file THEN NoInode ELSE paths[p]]
            /\ inodes' = Collect(inodes, paths', fd)
            /\ lastCommitted' = Dump(result[h].map)
            /\ lastWrite' = [lastWrite EXCEPT ![sender[h]] =
                                [by |-> h, rec |-> creds[h]]]
            /\ UNCHANGED err
    /\ UNCHANGED <<call, lockVars, op, sender, creds, result, fd, ops,
                   snap, fault, stale, lin>>

\* the with block of _update_creds is left, normally or by an exception
UUnlock(h) ==
    /\ pc[h] = "u_unlock"
    /\ Release(h)
    /\ pc' = [pc EXCEPT ![h] = "idle"]
    /\ snap' = [snap EXCEPT ![h] = Absent]
    /\ fault' = [fault EXCEPT ![h] = "none"]
    /\ stale' = [stale EXCEPT ![h] = Absent]
    /\ result' = [result EXCEPT ![h] = NoResult]
    /\ UNCHANGED <<call, fsVars, op, sender, creds, fd, err, ops,
                   lin, lastCommitted, lastWrite>>

\* ---- the program --------------------------------------------------------
Next ==
    \E h \in Handles :
        \/ \E s \in Senders : Construct(h, s)
        \/ StartRead(h)
        \/ \E rec \in Records : StartUpdate(h, rec)
        \/ RLock(h)
        \/ RRead(h)
        \/ RReturn(h)
        \/ IGet(h)
        \/ ULock(h)
        \/ UOverlay(h)
        \/ UOpen(h)
        \/ UWrite(h)
        \/ UReplace(h)
        \/ UUnlock(h)

Spec == Init /\ [][Next]_vars

\* ---- I/O faults and process death ---------------------------------------
\* line 110: open() of the credentials file raises an IOError (lines 114-115)
FailRead(h) ==
    /\ pc[h] = "r_read"
    /\ paths["creds"] # NoInode
    /\ ops < MaxOps
    /\ ops' = ops + 1
    /\ err' = [err EXCEPT ![h] = "MailSenderException"]
    /\ fault' = [fault EXCEPT ![h] = "read"]
    /\ pc' = [pc EXCEPT ![h] = "r_unlock"]
    /\ UNCHANGED <<call, fsVars, lockVars, op, sender, creds, result, fd,
                   snap, stale, lin, lastCommitted, lastWrite>>

\* line 133: os.open raises OSError, caught at lines 143-144
FailOpen(h) ==
    /\ pc[h] = "u_open"
    /\ ops < MaxOps
    /\ ops' = ops + 1
    /\ err' = [err EXCEPT ![h] = "MailSenderException"]
    /\ fault' = [fault EXCEPT ![h] = "open"]
    /\ pc' = [pc EXCEPT ![h] = "u_unlock"]
    /\ UNCHANGED <<call, fsVars, lockVars, op, sender, creds, result, fd,
                   snap, stale, lin, lastCommitted, lastWrite>>

\* line 135: os.write raises (nothing was stored), lines 136-139 wrap the
\* error, lines 140-141 close the descriptor
FailWrite(h) ==
    /\ pc[h] = "u_write"
    /\ ops < MaxOps
    /\ ops' = ops + 1
    /\ fd' = [fd EXCEPT ![h] = NoInode]
    /\ inodes' = Collect(inodes, paths, fd')
    /\ err' = [err EXCEPT ![h] = "MailSenderException"]
    /\ fault' = [fault EXCEPT ![h] = "write"]
    /\ pc' = [pc EXCEPT ![h] = "u_unlock"]
    /\ UNCHANGED <<call, paths, lockVars, op, sender, creds, result,
                   snap, stale, lin, lastCommitted, lastWrite>>

\* line 135: os.write stores fewer bytes than it was given and returns their
\* number, which the code does not look at; lines 140-141 close the descriptor
ShortWrite(h) ==
    /\ pc[h] = "u_write"
    /\ ops < MaxOps
    /\ ops' = ops + 1
    /\ fd' = [fd EXCEPT ![h] = NoInode]
    /\ \E c \in Partial(Dump(result[h].map)) :
          inodes' = Collect([inodes EXCEPT ![fd[h]] = c], paths, fd')
    /\ fault' = [fault EXCEPT ![h] = "short"]
    /\ pc' = [pc EXCEPT ![h] = "u_replace"]
    /\ UNCHANGED <<call, paths, lockVars, op, sender, creds, result, err,
                   snap, stale, lin, lastCommitted, lastWrite>>

\* line 142: os.replace raises OSError, caught at lines 143-144
FailReplace(h) ==
    /\ pc[h] = "u_replace"
    /\ ops < MaxOps
    /\ ops' = ops + 1
    /\ err' = [err EXCEPT ![h] = "MailSenderException"]
    /\ fault' = [fault EXCEPT ![h] = "replace"]
    /\ pc' = [pc EXCEPT ![h] = "u_unlock"]
    /\ UNCHANGED <<call, fsVars, lockVars, op, sender, creds, result, fd,
                   snap, stale, lin, lastCommitted, lastWrite>>

\* where a process can die inside _update_creds
InUpdate(h) ==
    /\ op[h] = "update"
    /\ pc[h] \in {"r_lock", "r_read", "r_unlock",
                  "u_open", "u_write", "u_replace", "u_unlock"}

\* the process running _update_creds dies: its descriptor is closed and the
\* operating system drops its lock; a death inside os.write may leave a part
\* of the document in the temporary file
Crash(h) ==
    /\ InUpdate(h)
    /\ ops < MaxOps
    /\ ops' = ops + 1
    /\ pc' = [pc EXCEPT ![h] = "crashed"]
    /\ fd' = [fd EXCEPT ![h] = NoInode]
    /\ \E c \in (IF pc[h] = "u_write"
                 THEN Partial(Dump(result[h].map)) \cup {ZeroBytes}
                 ELSE {ZeroBytes}) :
          inodes' = Collect(IF pc[h] = "u_write"
                            THEN [inodes EXCEPT ![fd[h]] = c] ELSE inodes,
                            paths, fd')
    /\ lockCount' = [lockCount EXCEPT ![h] = 0]
    /\ lockHolder' = IF lockHolder = h THEN NoHandle ELSE lockHolder
    /\ creds' = [creds EXCEPT ![h] = EmptyRec]
    /\ result' = [result EXCEPT ![h] = NoResult]
    /\ snap' = [snap EXCEPT ![h] = Absent]
    /\ fault' = [fault EXCEPT ![h] = "none"]
    /\ stale' = [stale EXCEPT ![h] = Absent]
    /\ UNCHANGED <<call, paths, op, sender, err, lin, lastCommitted, lastWrite>>

NextFault ==
    \/ Next
    \/ \E h \in Handles :
          \/ FailRead(h)
          \/ FailOpen(h)
          \/ FailWrite(h)
          \/ ShortWrite(h)
          \/ FailReplace(h)
          \/ Crash(h)

SpecFault == Init /\ [][NextFault]_vars

\* ---- fair scheduling -----------------------------------------------------
\* the next statement of the operation h is running
Step(h) ==
    \/ RLock(h)
    \/ RRead(h)
    \/ RReturn(h)
    \/ IGet(h)
    \/ ULock(h)
    \/ UOverlay(h)
    \/ UOpen(h)
    \/ UWrite(h)
    \/ UReplace(h)
    \/ UUnlock(h)

\* the operations started while progress is observed: what is written does
\* not bear on who waits for whom, one record stands for all
LiveRecords == {[f \in {"user"} |-> "v"]}

NextLive ==
    \/ \E h \in Handles :
          \/ \E s \in Senders : Construct(h, s)
          \/ StartRead(h)
          \/ \E rec \in LiveRecords : StartUpdate(h, rec)
    \/ \E h \in Handles : Step(h)

\* every process that can take its next step eventually takes it
SpecLive == Init /\ [][NextLive]_vars /\ \A h \in Handles : WF_vars(Step(h))

\* ---- mail_sender() ------------------------------------------------------
\* variant: only None is refused, as by `sender is None`
Missing_NoneOnly(a) == a = NoneSender

\* line 178: not sender
Missing(a) == a = NoneSender \/ a = ""

\* lines 188-189: domains_conf.get(domain), <<>> for None
get(conf, domain) == IF domain \in DOMAIN conf THEN <<conf[domain]>> ELSE <<>>

\* variant: whatever the lookup gives is taken as a domain's settings
Truthy_Any(found) == TRUE

\* line 189: the lookup gave something that is not falsy
Truthy(found) == found # <<>> /\ found[1] # EmptySpec

\* line 194: domain_spec.get('protocol', 'smtp')
protocol_of(spec) == IF "protocol" \in DOMAIN spec THEN spec["protocol"] ELSE "smtp"

\* line 220: isinstance(inst, MailSender)
IsMailSender(cls) == cls \in {SMTPSender, "Sender"}

\* line 224: except (ModuleNotFoundError, AttributeError)
Caught(e) == e \in {"ModuleNotFoundError", "AttributeError"}

\* what leaves mail_sender when e is raised, inside the try block or not
Raised(inTry, e) == IF inTry /\ Caught(e) THEN "UnsupportedProtocol" ELSE e

\* the run went through lines 214-223
Dynamic(c) == c.protocol # "smtp"

\* variant: the instance is returned as constructed
Opened_Skip(n) == n

\* lines 208, 223: .open() is called on the instance
Opened(n) == n + 1

\* an exception leaves mail_sender
Fail(e) == call' = [call EXCEPT !.pc = "failed", !.err = e]

\* mail_sender(sender, ...) is called
FStart(a, conf) ==
    /\ call.pc \in {"idle", "returned", "failed"}
    /\ call' = [NoCall EXCEPT !.pc = "start", !.sender = a, !.conf = conf]
    /\ UNCHANGED <<fsVars, lockVars, pc, op, sender, creds, result, fd, err,
                   ops, histVars>>

\* lines 178-179
FCheckSender ==
    /\ call.pc = "start"
    /\ IF Missing(call.sender)
       THEN Fail("MissingSender")
       ELSE call' = [call EXCEPT !.pc = "load"]
    /\ UNCHANGED <<fsVars, lockVars, pc, op, sender, creds, result, fd, err,
                   ops, histVars>>

\* lines 182-185: load_config
FLoad ==
    /\ call.pc = "load"
    /\ call' = [call EXCEPT !.pc = "split", !.loaded = TRUE]
    /\ UNCHANGED <<fsVars, lockVars, pc, op, sender, creds, result, fd, err,
                   ops, histVars>>

\* line 187: (addr, domain) = sender.split('@', 2)
FSplit ==
    /\ call.pc = "split"
    /\ LET parts == split(Text(call.sender), "@", 2) IN
         IF Len(parts) # 2
         THEN \* too many or not enough values to unpack
              Fail("ValueError")
         ELSE call' = [call EXCEPT !.pc = "lookup", !.domain = Spelled(parts[2])]
    /\ UNCHANGED <<fsVars, lockVars, pc, op, sender, creds, result, fd, err,
                   ops, histVars>>

\* lines 188-194
FLookup ==
    /\ call.pc = "lookup"
    /\ LET found == get(call.conf, call.domain) IN
         IF ~Truthy(found)
         THEN Fail("UnknownDomain")
         ELSE IF found = <<>>
         THEN \* None.get
              Fail("AttributeError")
         ELSE call' = [call EXCEPT !.pc = "dispatch", !.spec = found[1],
                                   !.protocol = protocol_of(found[1])]
    /\ UNCHANGED <<fsVars, lockVars, pc, op, sender, creds, result, fd, err,
                   ops, histVars>>

\* lines 206-214
FDispatch ==
    /\ call.pc = "dispatch"
    /\ IF call.protocol = "smtp"
       THEN call' = [call EXCEPT !.pc = "construct", !.cls = SMTPSender]
       ELSE IF ~Contains(Text(call.protocol), ":")
       THEN Fail("NoImplementation")
       ELSE LET parts == split(Text(call.protocol), ":", 1) IN
              call' = [call EXCEPT !.pc = "import",
                                   !.module_ = Spelled(parts[1]),
                                   !.class_ = Spelled(parts[2])]
    /\ UNCHANGED <<fsVars, lockVars, pc, op, sender, creds, result, fd, err,
                   ops, histVars>>

\* line 217: importlib.import_module(module_)
FImport ==
    /\ call.pc = "import"
    /\ IF call.module_ = ""
       THEN \* Empty module name
            Fail(Raised(TRUE, "ValueError"))
       ELSE IF call.module_ \notin Importable
       THEN Fail(Raised(TRUE, "ModuleNotFoundError"))
       ELSE call' = [call EXCEPT !.pc = "getattr"]
    /\ UNCHANGED <<fsVars, lockVars, pc, op, sender, creds, result, fd, err,
                   ops, histVars>>

\* line 218: getattr(mod, class_)
FGetattr ==
    /\ call.pc = "getattr"
    /\ IF call.class_ \notin Attributes
       THEN Fail(Raised(TRUE, "AttributeError"))
       ELSE call' = [call EXCEPT !.pc = "construct", !.cls = call.class_]
    /\ UNCHANGED <<fsVars, lockVars, pc, op, sender, creds, result, fd, err,
                   ops, histVars>>

\* lines 208, 219: the class is called; a MailSender runs __init__
FConstruct(h) ==
    /\ call.pc = "construct"
    /\ IF call.cls \in {SMTPSender, "Sender"}
       THEN /\ Born(h, call.sender)
            /\ call' = [call EXCEPT !.pc = "constructing", !.inst = h, !.built = @ + 1]
       ELSE /\ h = 1
            /\ call' = [call EXCEPT !.pc = "isinstance", !.built = @ + 1]
            /\ UNCHANGED <<fsVars, lockVars, pc, op, sender, creds, result, fd,
                           err, ops, histVars>>

\* lines 208, 219: __init__ returns or raises
FConstructed ==
    /\ call.pc = "constructing"
    /\ pc[call.inst] \in {"idle", "failed"}
    /\ IF pc[call.inst] = "failed"
       THEN Fail(Raised(Dynamic(call), err[call.inst]))
       ELSE call' = [call EXCEPT !.pc = IF Dynamic(call) THEN "isinstance" ELSE "open"]
    /\ UNCHANGED <<fsVars, lockVars, pc, op, sender, creds, result, fd, err,
                   ops, histVars>>

\* lines 220-222
FIsInstance ==
    /\ call.pc = "isinstance"
    /\ IF ~IsMailSender(call.cls)
       THEN Fail(Raised(TRUE, "NotASender"))
       ELSE call' = [call EXCEPT !.pc = "open", !.checked = TRUE]
    /\ UNCHANGED <<fsVars, lockVars, pc, op, sender, creds, result, fd, err,
                   ops, histVars>>

\* lines 208, 223 and 94-100: return inst.open()
FOpen ==
    /\ call.pc = "open"
    /\ call' = [call EXCEPT !.pc = "returned", !.opens = Opened(@),
                            !.result = call.inst]
    /\ UNCHANGED <<fsVars, lockVars, pc, op, sender, creds, result, fd, err,
                   ops, histVars>>

NextFactory ==
    \/ \E a \in Addresses, conf \in DomainTables : FStart(a, conf)
    \/ FCheckSender
    \/ FLoad
    \/ FSplit
    \/ FLookup
    \/ FDispatch
    \/ FImport
    \/ FGetattr
    \/ \E h \in Handles : FConstruct(h)
    \/ FConstructed
    \/ FIsInstance
    \/ FOpen
    \/ \E h \in Handles :
          \/ RLock(h)
          \/ RRead(h)
          \/ IGet(h)
          \/ FailRead(h)

SpecFactory == Init /\ [][NextFactory]_vars

\* ---- vocabulary of the properties ---------------------------------------
\* the entry a content holds for a sender: <<record>>, or <<>> when it has none
Entry(c, s) ==
    IF c.kind = "doc" /\ HasKey(BodyMap(c.body), s)
    THEN <<BodyMap(c.body)[s]>> ELSE <<>>

\* what _read_creds_file returns for a content
ReadOf(c) == IF c.kind = "absent" THEN MapResult(EmptyMap) ELSE Load(c)

\* the update of h has replaced the target and still holds the lock
Replaced(h) == op[h] = "update" /\ pc[h] = "u_unlock" /\ err[h] = "none"

\* h is inside the region its lock guards
InCritical(h) ==
    \/ pc[h] \in {"r_read", "u_open", "u_write", "u_replace"}
    \/ op[h] = "update" /\ pc[h] \in {"r_unlock", "u_unlock"}

\* no update is between taking the lock and leaving it
Quiescent == \A h \in Handles : ~(InCritical(h) \/ (op[h] = "update" /\ pc[h] = "r_lock"))

\* C1: when two handles bound to different senders have both replaced the
\* file with their own record, the file on disk holds both records, each
\* equal to what its handle wrote, whatever the interleaving of the two calls.
C1_NoLostUpdate ==
    \A h1, h2 \in Handles :
        ( /\ h1 # h2
          /\ sender[h1] \in Senders /\ sender[h2] \in Senders
          /\ sender[h1] # sender[h2]
          /\ lastWrite[sender[h1]].by = h1
          /\ lastWrite[sender[h2]].by = h2 )
        => /\ Entry(FileAt("creds"), sender[h1]) = <<lastWrite[sender[h1]].rec>>
           /\ Entry(FileAt("creds"), sender[h2]) = <<lastWrite[sender[h2]].rec>>

C1_Witness ==
    \E h1, h2 \in Handles :
        /\ h1 # h2
        /\ sender[h1] \in Senders /\ sender[h2] \in Senders
        /\ sender[h1] # sender[h2]
        /\ lastWrite[sender[h1]].by = h1
        /\ lastWrite[sender[h2]].by = h2
        /\ pc[h1] = "idle" /\ op[h1] = "update"
        /\ pc[h2] = "idle" /\ op[h2] = "update"

\* C2: a completed update by a handle bound to sender S leaves every other
\* sender's entry equal to its on-disk value at the moment the update took
\* the lock.
C2_UpdateFrame ==
    \A h \in Handles :
        Replaced(h) =>
            \A s \in Senders \ {sender[h]} :
                Entry(FileAt("creds"), s) = Entry(snap[h], s)

C2_Witness ==
    \E h \in Handles :
        /\ Replaced(h)
        /\ \E s \in Senders \ {sender[h]} :
              /\ Entry(snap[h], s) # <<>>
              /\ lastWrite[s].by \notin {NoHandle, h}

\* C3: whenever a read of the credentials file returns, what it returns is
\* exactly the document installed by the latest completed os.replace (the
\* state before a concurrent update until that update renames, the state
\* after it from then on), never partly written content.
C3_AtomicVisibility ==
    [][\A h \in Handles :
          (pc[h] = "r_read" /\ pc'[h] = "r_unlock")
          => IF err'[h] = "none"
             THEN result'[h] = ReadOf(lastCommitted)
             ELSE err'[h] = "YAMLError" /\ LoadRaises(lastCommitted)]_vars

C3_Witness ==
    \E r, u \in Handles :
        /\ r # u
        /\ op[r] \in {"read", "init"} /\ pc[r] = "r_unlock" /\ err[r] = "none"
        /\ op[u] = "update" /\ pc[u] = "u_lock"
        /\ lastCommitted.kind = "doc"

\* C4: when the process running _update_creds dies after the temporary file
\* was opened and before os.replace has run, the target file holds exactly
\* what it held when the update started, and that is a parsable mapping (or
\* no file).
C4_CrashLeavesTarget ==
    [][\A h \in Handles :
          (pc[h] \in {"u_write", "u_replace"} /\ pc'[h] = "crashed")
          => /\ FileAt("creds")' = snap[h]
             /\ Parsable(FileAt("creds")')]_vars

C4_Witness ==
    \E h \in Handles :
        /\ pc[h] = "crashed"
        /\ paths["temp"] # NoInode
        /\ FileAt("temp") # ZeroBytes
        /\ FileAt("creds").kind = "doc"

\* C5: whenever opening the temporary file or writing the document to it
\* fails, a short write included, the update ends with a
\* MailSenderException and the target file is what it was.
C5_FailedPersistKeepsStore ==
    \A h \in Handles :
        (op[h] = "update" /\ pc[h] = "u_unlock"
            /\ fault[h] \in {"open", "write", "short"})
        => /\ err[h] = "MailSenderException"
           /\ FileAt("creds") = snap[h]


\* rec laid field by field over a prior record
Merge(rec, prior) ==
    [f \in (DOMAIN rec) \cup (DOMAIN prior) |->
        IF f \in DOMAIN rec THEN rec[f] ELSE prior[f]]

\* the record a content stores for a sender, {} when it stores none
Stored(c, s) == IF Entry(c, s) = <<>> THEN EmptyRec ELSE Entry(c, s)[1]

\* C6 as stated: after an update completes, the sender's record on disk is
\* the handle's record merged over the record stored for that sender just
\* before the update.
C6_MergedOverPrior ==
    \A h \in Handles :
        Replaced(h) =>
            Entry(FileAt("creds"), sender[h])
                = <<Merge(creds[h], Stored(snap[h], sender[h]))>>

\* C6 as amended: after an update completes, the sender's record on disk is
\* exactly the handle's record (it replaces the stored record, nothing of the
\* prior record is kept), and a read of the file afterwards, by the same
\* handle or by a handle being constructed, finds exactly the record last
\* written for its sender.
C6_UpdateReplaces ==
    \A h \in Handles :
        /\ Replaced(h) => Entry(FileAt("creds"), sender[h]) = <<creds[h]>>
        /\ ( /\ op[h] \in {"init", "read"} /\ pc[h] = "r_unlock" /\ err[h] = "none"
             /\ lastWrite[sender[h]].by # NoHandle )
           => /\ result[h].kind = "map"
              /\ user_credentials(result[h].map, sender[h])
                    = lastWrite[sender[h]].rec

\* a handle replaces a record that another handle of the same sender wrote
\* after this handle had loaded its own, and that has a field its own lacks
C6_Witness ==
    \E h \in Handles :
        /\ Replaced(h)
        /\ \E f \in Fields :
              /\ f \in DOMAIN Stored(snap[h], sender[h])
              /\ f \notin DOMAIN creds[h]
        /\ \E g \in Handles \ {h} : sender[g] = sender[h] /\ op[g] = "update"

\* C7: whenever no update is in its critical section the file on disk is
\* the result of applying the updates one at a time in the order in which
\* they took the lock, and a read that holds the lock returns that mapping.
C7_Linearizable ==
    /\ Quiescent => FileAt("creds") = lin
    /\ \A h \in Handles :
          (op[h] \in {"read", "init"} /\ pc[h] = "r_unlock" /\ err[h] = "none")
          => result[h] = ReadOf(lin)

C7_Witness ==
    \E r \in Handles :
        /\ op[r] = "read" /\ pc[r] = "r_unlock" /\ err[r] = "none"
        /\ \E s1, s2 \in Senders :
              /\ s1 # s2
              /\ lastWrite[s1].by # NoHandle
              /\ lastWrite[s2].by \notin {NoHandle, lastWrite[s1].by}

\* C8: at most one handle is inside a region that reads the credentials
\* file, writes the temporary file or renames it, and an updating handle
\* holds the lock from its re-read of the file until after the rename.
C8_MutualExclusion ==
    /\ Cardinality({h \in Handles : InCritical(h)}) <= 1
    /\ \A h \in Handles :
          InCritical(h) => lockHolder = h /\ lockCount[h] >= 1

C8_Witness ==
    \E h, g \in Handles :
        /\ h # g
        /\ op[h] = "update" /\ pc[h] = "u_replace"
        /\ pc[g] \in {"r_lock", "u_lock"}

\* C9: on a credentials file that exists and is not a serialized mapping,
\* construction and _update_creds fail with a MailSenderException and leave
\* the file as it is.
C9_CorruptIsReported ==
    \A h \in Handles :
        /\ pc[h] = "failed" => err[h] = "MailSenderException"
        /\ (op[h] = "update" /\ pc[h] = "u_unlock" /\ ~Parsable(snap[h]))
           => err[h] = "MailSenderException" /\ FileAt("creds") = snap[h]

\* C10: a handle constructed while the credentials file does not exist, or
\* holds a valid mapping without an entry for its sender, is constructed
\* without error and with empty credentials, and the file exists only once
\* an update has replaced it.
C10_AbsenceIsEmpty ==
    /\ lastCommitted = Absent => paths["creds"] = NoInode
    /\ \A h \in Handles :
          ( /\ op[h] = "init" /\ pc[h] \in {"idle", "failed"}
            /\ Parsable(FileAt("creds"))
            /\ Entry(FileAt("creds"), sender[h]) = <<>> )
          => pc[h] = "idle" /\ err[h] = "none" /\ creds[h] = EmptyRec

C10_Witness ==
    \E h, g \in Handles :
        /\ op[h] = "init" /\ pc[h] = "idle" /\ paths["creds"] = NoInode
        /\ op[g] = "init" /\ pc[g] = "idle" /\ sender[g] # sender[h]

\* ---- mail_sender(): vocabulary -----------------------------------------
\* the exceptions of mail_sender that are MailSenderExceptions
MailSenderExceptions ==
    {"MissingSender", "UnknownDomain", "NoImplementation", "NotASender",
     "UnsupportedProtocol", "MailSenderException"}

\* the run of mail_sender has ended
Finished == call.pc \in {"returned", "failed"}

\* number of '@' in an address
NumAt(a) == Cardinality({i \in DOMAIN Text(a) : Text(a)[i] = "@"})

\* what follows the '@' of an address that has exactly one
DomainPart(a) ==
    LET t == Text(a)
        i == CHOOSE k \in DOMAIN t : t[k] = "@"
    IN  Spelled(SubSeq(t, i + 1, Len(t)))

WellFormed(a) == ~(a = NoneSender \/ a = "") /\ NumAt(a) = 1

\* C11: a run of mail_sender on an address with no '@', or with more than
\* one, fails with a MailSenderException, whatever the domain table holds.
C11_InvalidAddress ==
    (Finished /\ ~(call.sender = NoneSender \/ call.sender = "")
        /\ NumAt(call.sender) # 1)
    => call.pc = "failed" /\ call.err \in MailSenderExceptions

\* C12: a run for a domain that is a key of the domain table and whose
\* settings have no "protocol", the empty settings included, resolves to the
\* built-in SMTP sender and never fails with UnknownDomain.
C12_DefaultIsSmtp ==
    ( /\ Finished /\ WellFormed(call.sender)
      /\ DomainPart(call.sender) \in DOMAIN call.conf
      /\ "protocol" \notin DOMAIN call.conf[DomainPart(call.sender)] )
    => call.err # "UnknownDomain" /\ call.cls = SMTPSender

\* C13: a run on a well-formed address whose domain part is not a key of the
\* domain table fails with UnknownDomain, a MailSenderException, and has
\* constructed no sender.
C13_UnknownDomain ==
    ( /\ Finished /\ WellFormed(call.sender)
      /\ DomainPart(call.sender) \notin DOMAIN call.conf )
    => /\ call.pc = "failed" /\ call.err = "UnknownDomain"
       /\ call.err \in MailSenderExceptions
       /\ call.built = 0 /\ call.inst = NoHandle

C13_Witness ==
    /\ call.pc = "failed" /\ call.err = "UnknownDomain"
    /\ call.sender = "amy@y.org"
    /\ "x.org" \in DOMAIN call.conf

\* the protocol string the run dispatches on
Proto(c) == protocol_of(c.conf[DomainPart(c.sender)])

\* the run is for a domain of the table whose settings are recognized
KnownDomain(c) ==
    /\ WellFormed(c.sender)
    /\ DomainPart(c.sender) \in DOMAIN c.conf
    /\ c.conf[DomainPart(c.sender)] # EmptySpec

\* module and symbol named by a module:symbol string both exist
Resolves(p) ==
    /\ Contains(Text(p), ":")
    /\ LET parts == split(Text(p), ":", 1) IN
         Spelled(parts[1]) \in Importable /\ Spelled(parts[2]) \in Attributes

\* C14: the outcome of a run for a known domain is determined by the
\* protocol string: "smtp" returns the built-in SMTP sender; another string
\* without ':' fails with NoImplementation; module:symbol that cannot be
\* resolved fails with UnsupportedProtocol; module:symbol resolving to
\* something that is not a MailSender fails with NotASender; module:symbol
\* resolving to a MailSender subclass returns an instance of that class
\* bound to the requested address.
C14_DispatchByProtocol ==
    (Finished /\ KnownDomain(call)) =>
        LET p == Proto(call) IN
          CASE p = "smtp" ->
                 /\ call.pc = "returned" /\ call.cls = SMTPSender
                 /\ sender[call.result] = call.sender
            [] p # "smtp" /\ ~Contains(Text(p), ":") ->
                 call.pc = "failed" /\ call.err = "NoImplementation"
            [] Contains(Text(p), ":") /\ ~Resolves(p) ->
                 call.pc = "failed" /\ call.err = "UnsupportedProtocol"
            [] Resolves(p) /\ Spelled(split(Text(p), ":", 1)[2]) # "Sender" ->
                 call.pc = "failed" /\ call.err = "NotASender"
            [] OTHER ->
                 /\ call.pc = "returned" /\ call.cls = "Sender"
                 /\ sender[call.result] = call.sender

\* C15: a run fails with UnsupportedProtocol only when the module or the
\* symbol its protocol string names could not be resolved, never for a
\* failure raised while the resolved implementation is constructed or
\* opened.
C15_FailureStage ==
    (call.pc = "failed" /\ call.err = "UnsupportedProtocol")
    => /\ ~Resolves(call.protocol)
       /\ call.built = 0

\* C16: a run on an empty or missing sender address fails with
\* MissingSender, a MailSenderException, before the domain table is loaded,
\* a credentials file is read or a sender is constructed.
C16_MissingSender ==
    ( /\ call.pc \notin {"idle", "start"}
      /\ (call.sender = NoneSender \/ call.sender = "") )
    => /\ call.pc = "failed" /\ call.err = "MissingSender"
       /\ call.err \in MailSenderExceptions
       /\ ~call.loaded /\ call.built = 0 /\ call.inst = NoHandle
       /\ call.opens = 0

C16_Witness ==
    /\ call.pc = "failed" /\ call.err = "MissingSender"
    /\ call.sender = ""
    /\ call.conf # <<>>

\* C18: open() is invoked only on an instance whose construction has
\* returned and, on the module:symbol path, that has passed the isinstance
\* check; a run that returns has invoked it exactly once and returns its
\* result, and a run that fails has not invoked it.
C18_OpenLast ==
    [][ /\ (call'.opens # call.opens /\ call'.pc # "start")
           => /\ call.opens = 0 /\ call'.opens = 1
              /\ call.built = 1
              /\ call.inst # NoHandle /\ pc[call.inst] = "idle"
              /\ sender[call.inst] = call.sender
              /\ Dynamic(call) => call.checked
        /\ call'.pc = "returned"
           => call'.opens = 1 /\ call'.result = call'.inst
        /\ call'.pc = "failed" => call'.opens = 0 /\ call'.result = NoHandle
      ]_vars

C18_Witness ==
    /\ call.pc = "returned" /\ call.opens = 1
    /\ Dynamic(call) /\ call.checked
    /\ call.result # NoHandle /\ op[call.result] = "init"

\* h is not running any code of the store
Outside(h) == pc[h] \in {"unborn", "idle", "failed", "crashed"}

\* h waits for the lock without holding it
Waiting(h) == pc[h] = "u_lock" \/ (pc[h] = "r_lock" /\ op[h] # "update")

\* C17: once _read_creds_file or _update_creds has returned, normally or by
\* raising, the handle holds the lock no longer, so that the lock is free
\* whenever no handle is inside an operation; and between the return of the
\* nested _read_creds_file and the end of _update_creds the handle holds the
\* lock exactly once.
C17_LockReleased ==
    /\ \A h \in Handles :
          /\ Outside(h) => lockCount[h] = 0 /\ lockHolder # h
          /\ (op[h] = "update"
                /\ pc[h] \in {"u_open", "u_write", "u_replace", "u_unlock"})
             => lockCount[h] = 1 /\ lockHolder = h
    /\ (\A h \in Handles : Outside(h) \/ Waiting(h)) => lockHolder = NoHandle

\* an update that failed has returned and another handle has the lock
C17_Witness ==
    \E h, g \in Handles :
        /\ h # g
        /\ op[h] = "update" /\ pc[h] = "idle" /\ err[h] = "MailSenderException"
        /\ pc[g] = "r_read" /\ lockHolder = g

\* C20: an update that finds a temporary file left behind by an earlier
\* update, and that no new fault hits, succeeds when the credentials file
\* is a mapping or absent: the file it installs is that mapping overlaid
\* with the handle's record, and no temporary file remains.
C20_StaleTempIgnored ==
    \A h \in Handles :
        ( /\ op[h] = "update" /\ pc[h] = "u_unlock"
          /\ stale[h] # Absent
          /\ fault[h] = "none"
          /\ Parsable(snap[h]) )
        => /\ err[h] = "none"
           /\ FileAt("creds") = Dump(Overlay(MapOf(snap[h]), sender[h], creds[h]))
           /\ paths["temp"] = NoInode

\* the updater found a longer document, or part of one, in the temp file
C20_Witness ==
    \E h \in Handles :
        /\ op[h] = "update" /\ pc[h] = "u_unlock" /\ err[h] = "none"
        /\ fault[h] = "none"
        /\ stale[h].kind = "doc"
        /\ Len(stale[h].body) > Len(FileAt("creds").body)

\* h is running _read_creds_file or _update_creds
Started(h) == ~Outside(h)

\* C19: under fair scheduling and without crashes, every started
\* _read_creds_file or _update_creds eventually returns; an update does not
\* wait for the lock it holds itself when it re-reads the file.
C19_Progress ==
    \A h \in Handles : Started(h) ~> (pc[h] \in {"idle", "failed"})

\* an updater re-reads the file under its own lock while another handle waits
C19_Witness ==
    \E h, g \in Handles :
        /\ h # g
        /\ op[h] = "update" /\ pc[h] = "r_read" /\ lockCount[h] = 2
        /\ Waiting(g)

====
